---- MODULE Spec2Model ----
(***************************************************************************)
(* A model of the MIPS32 emulator core of src/src/state.rs: the machine    *)
(* state (struct State), the execution engine (struct InstrumentedState)   *)
(* and the single-step transition mips_step with its handlers.             *)
(*                                                                         *)
(* A u32 is the pair <<hi, lo>> of its 16-bit halves, so that every value  *)
(* of the 32-bit range is representable and every operation keeps the      *)
(* width of the source.  A panic of the Rust code ends the run with its    *)
(* reason in status; a loop that can never leave ends it with              *)
(* status = "hung".  Arithmetic overflow of +, - and * and an oversized    *)
(* shift amount panic when the build has overflow checks (the dev          *)
(* profile) and wrap otherwise (the release profile): overflow_checks is   *)
(* the build's choice.  So is the width of usize (usize_bytes), which the   *)
(* length prefix of a cached preimage takes: 4 bytes on a 32-bit target,   *)
(* 8 bytes on a 64-bit one.                                                *)
(***************************************************************************)
EXTENDS Integers, Sequences, FiniteSets, TLC

VARIABLES
    memory,            \* State.memory: aligned address -> word (absent = 0)
    preimage_key,      \* State.preimage_key: 32 bytes
    preimage_offset,   \* State.preimage_offset
    registers,         \* State.registers
    pc, next_pc,       \* State.pc, State.next_pc
    hi, lo,            \* State.hi, State.lo
    heap,              \* State.heap
    step,              \* State.step
    exited, exit_code, \* State.exited, State.exit_code
    last_hint,         \* State.last_hint: buffered hint bytes
    last_mem_access,   \* InstrumentedState.last_mem_access
    mem_proof_enabled, \* InstrumentedState.mem_proof_enabled
    mem_proof,         \* InstrumentedState.mem_proof: the address it proves
    last_preimage,     \* InstrumentedState.last_preimage
    last_preimage_key, \* InstrumentedState.last_preimage_key
    last_preimage_offset, \* InstrumentedState.last_preimage_offset
    oracle_hints,      \* the payloads preimage_oracle.hint was called with
    oracle_fetches,    \* the keys preimage_oracle.get_preimage was called with
    stdout_writer,     \* bytes written to stdout_writer
    stderr_writer,     \* bytes written to stderr_writer
    status,            \* "ok", "hung" or the reason of the panic
    overflow_checks,   \* the build panics on arithmetic overflow
    usize_bytes,       \* size_of::<usize>() of the build target
    prev               \* history: the machine before the last mips_step call

vars == <<memory, preimage_key, preimage_offset, registers, pc, next_pc, hi, lo,
          heap, step, exited, exit_code, last_hint, last_mem_access,
          mem_proof_enabled, mem_proof, last_preimage, last_preimage_key,
          last_preimage_offset, oracle_hints, oracle_fetches, stdout_writer,
          stderr_writer, status, overflow_checks, usize_bytes, prev>>

-----------------------------------------------------------------------------
(* u32 arithmetic on <<hi, lo>> pairs                                       *)

Half == 65536

W(n) == <<n \div Half, n % Half>>

ZeroWord == <<0, 0>>

AllOnes == <<65535, 65535>>

\* the value of a word below 2^31 as a number
ToNat(w) == w[1] * Half + w[2]

\* a + b: the wrapped sum and whether it overflowed
Add32(a, b) ==
    LET l == a[2] + b[2]
        h == a[1] + b[1] + (l \div Half)
    IN  [v |-> <<h % Half, l % Half>>, ovf |-> h >= Half]

\* a - b: the wrapped difference and whether it underflowed
Sub32(a, b) ==
    LET l == a[2] - b[2]
        bl == IF l < 0 THEN 1 ELSE 0
        h == a[1] - b[1] - bl
    IN  [v |-> <<h % Half, l % Half>>, ovf |-> h < 0]

\* unsigned a < b
Lt32(a, b) == a[1] < b[1] \/ (a[1] = b[1] /\ a[2] < b[2])

\* (w as i32) < 0
Neg32(w) == w[1] >= 32768

\* (a as i32) < (b as i32)
SLt32(a, b) ==
    IF Neg32(a) # Neg32(b) THEN Neg32(a) ELSE Lt32(a, b)

\* w << n for 0 <= n <= 31, bits shifted out are lost
Shl32(w, n) ==
    IF n >= 16
    THEN <<(w[2] * 2^(n - 16)) % Half, 0>>
    ELSE <<((w[1] * 2^n) % Half) + ((w[2] * 2^n) \div Half), (w[2] * 2^n) % Half>>

\* w >> n for 0 <= n <= 31, logical
Shr32(w, n) ==
    IF n >= 16
    THEN <<0, w[1] \div 2^(n - 16)>>
    ELSE <<w[1] \div 2^n, (w[2] \div 2^n) + ((w[1] % 2^n) * 2^(16 - n))>>

RECURSIVE And16(_, _)
And16(a, b) ==
    IF a = 0 \/ b = 0 THEN 0
    ELSE (a % 2) * (b % 2) + 2 * And16(a \div 2, b \div 2)

RECURSIVE Xor16(_, _)
Xor16(a, b) ==
    IF a = 0 THEN b
    ELSE IF b = 0 THEN a
    ELSE ((a + b) % 2) + 2 * Xor16(a \div 2, b \div 2)

And32(a, b) == <<And16(a[1], b[1]), And16(a[2], b[2])>>

Xor32(a, b) == <<Xor16(a[1], b[1]), Xor16(a[2], b[2])>>

Or32(a, b) ==
    <<a[1] + b[1] - And16(a[1], b[1]), a[2] + b[2] - And16(a[2], b[2])>>

Not32(a) == <<65535 - a[1], 65535 - a[2]>>

\* u32::to_be_bytes and u32::from_be_bytes
to_be_bytes(w) == <<w[1] \div 256, w[1] % 256, w[2] \div 256, w[2] % 256>>

from_be_bytes(b) == <<b[1] * 256 + b[2], b[3] * 256 + b[4]>>

\* a & 0xFFffFFfc and a & 3
AlignWord(a) == <<a[1], a[2] - (a[2] % 4)>>

Alignment(a) == a[2] % 4

Min(a, b) == IF a <= b THEN a ELSE b

\* min of two u32
Min32(a, b) == IF Lt32(b, a) THEN b ELSE a

-----------------------------------------------------------------------------
(* Constants of the source                                                  *)

FD_STDIN == 0
FD_STDOUT == 1
FD_STDERR == 2
FD_HINT_READ == 3
FD_HINT_WRITE == 4
FD_PREIMAGE_READ == 5
FD_PREIMAGE_WRITE == 6
MIPS_EBADF == 9

\* crate::page: the page size and the mask of the offset inside a page
PAGE_SIZE == 4096

PAGE_ADDR_MASK == PAGE_SIZE - 1

SYS_MMAP == 4090
SYS_BRK == 4045
SYS_CLONE == 4120
SYS_EXIT_GROUP == 4246
SYS_READ == 4003
SYS_WRITE == 4004
SYS_FCNTL == 4055

\* the value brk returns, 0x40000000
BrkResult == <<16384, 0>>

\* size_of::<usize>() of the targets the crate builds for: the width of
\* data.len().to_be_bytes()
UsizeWidths == {4, 8}

KeyLen == 32

-----------------------------------------------------------------------------
(* The machine as one record, and the collaborators                         *)

Cur ==
    [memory |-> memory, preimage_key |-> preimage_key,
     preimage_offset |-> preimage_offset, registers |-> registers,
     pc |-> pc, next_pc |-> next_pc, hi |-> hi, lo |-> lo, heap |-> heap,
     step |-> step, exited |-> exited, exit_code |-> exit_code,
     last_hint |-> last_hint, last_mem_access |-> last_mem_access,
     mem_proof_enabled |-> mem_proof_enabled, mem_proof |-> mem_proof,
     last_preimage |-> last_preimage, last_preimage_key |-> last_preimage_key,
     last_preimage_offset |-> last_preimage_offset,
     oracle_hints |-> oracle_hints, oracle_fetches |-> oracle_fetches,
     stdout_writer |-> stdout_writer, stderr_writer |-> stderr_writer,
     status |-> status, overflow_checks |-> overflow_checks,
     usize_bytes |-> usize_bytes]

\* panic!: the step ends here, with what it had written so far; status
\* keeps the reason
Panic(m, msg) == [m EXCEPT !.status = msg]

\* the reasons a step panics for
MemAccessPanic == "unexpected different memory access"
OverflowPanic == "arithmetic overflow"
SlicePanic == "slice index or length mismatch"
DividePanic == "attempt to divide by zero or with overflow"
BranchInsnPanic == "invalid insn when process branch on req imm"
BranchOpcodePanic == "invalid branch opcode"
HiLoPanic == "invalid fun when process hi lo"
RegisterPanic == "invalid register"
InstructionPanic == "invalid instruction"

Panicked(st) == st \notin {"ok", "hung"}

\* an overflowing +, -, * panics in a build with overflow checks
Overflows(m, r) == r.ovf /\ m.overflow_checks

\* Memory::get_memory and Memory::set_memory on an aligned address
get_memory(mem, addr) == IF addr \in DOMAIN mem THEN mem[addr] ELSE ZeroWord

set_memory(mem, addr, v) ==
    [a \in (DOMAIN mem) \cup {addr} |-> IF a = addr THEN v ELSE mem[a]]

\* the byte at a byte address, big-endian inside its word
ByteAt(mem, addr) == to_be_bytes(get_memory(mem, AlignWord(addr)))[Alignment(addr) + 1]

\* Memory::read_memory_range(addr, count) drained by read_to_end / io::copy
RECURSIVE read_memory_range(_, _, _)
read_memory_range(mem, addr, count) ==
    IF count = 0 THEN <<>>
    ELSE <<ByteAt(mem, addr)>> \o read_memory_range(mem, Add32(addr, W(1)).v, count - 1)

\* PreimageOracle::get_preimage: the blob the oracle holds for a key
\* (its length is the key's last byte)
get_preimage(key) == [i \in 1..key[KeyLen] |-> (160 + i) % 256]

\* the first n elements and the elements after the first n
Take(s, n) == SubSeq(s, 1, n)

Drop(s, n) == SubSeq(s, n + 1, Len(s))

\* n bytes of zero
Zeros(n) == [i \in 1..n |-> 0]

\* usize::to_be_bytes of a length below 256, for a usize of width bytes
len_to_be_bytes(n, width) == Zeros(width - 1) \o <<n>>

-----------------------------------------------------------------------------
(* track_memory_access and read_preimage                                    *)

track_memory_access(m, addr) ==
    IF m.mem_proof_enabled /\ m.last_mem_access # addr
    THEN Panic(m, MemAccessPanic)
    ELSE [m EXCEPT !.last_mem_access = addr, !.mem_proof = addr]

\* a fetch that does not look at the cached key
cache_miss_always(key, last_key) == TRUE

\* if key != self.last_preimage_key
cache_miss(key, last_key) == key # last_key

\* the engine after read_preimage(key, offset) and what it returns:
\* data_len is copy_size; data are the copied bytes (the rest of the
\* 32-byte array is zero)
read_preimage(m, key, offset) ==
    LET m1 == IF cache_miss(key, m.last_preimage_key)
              THEN [m EXCEPT !.last_preimage_key = key,
                             !.oracle_fetches = Append(@, key),
                             !.last_preimage =
                                 len_to_be_bytes(Len(get_preimage(key)), m.usize_bytes)
                                 \o get_preimage(key)]
              ELSE m
        m2 == [m1 EXCEPT !.last_preimage_offset = offset]
        off == ToNat(offset)
        total == Len(m2.last_preimage)
    IN  IF offset[1] >= 32768 \/ off > total
        THEN [m |-> Panic(m2, SlicePanic), data |-> <<>>, data_len |-> 0]
        ELSE LET bytes_to_copy == Drop(m2.last_preimage, off)
                 copy_size == Min(Len(bytes_to_copy), KeyLen)
             IN  IF copy_size # Len(bytes_to_copy)
                 THEN [m |-> Panic(m2, SlicePanic), data |-> <<>>, data_len |-> 0]
                 ELSE [m |-> m2,
                       data |-> bytes_to_copy \o Zeros(KeyLen - copy_size),
                       data_len |-> copy_size]

-----------------------------------------------------------------------------
(* handle_syscall                                                           *)

\* what a syscall arm hands to the common tail: the machine, v0 and v1
Ret(m, v0, v1) == [m |-> m, v0 |-> v0, v1 |-> v1]

\* an arm that panicked, hung or exited: the tail is not run
Stop(m) == [m |-> m, v0 |-> ZeroWord, v1 |-> ZeroWord]

\* pc = next_pc; next_pc = next_pc + 4
advance_pc(m) ==
    LET s == Add32(m.next_pc, W(4))
        m1 == [m EXCEPT !.pc = m.next_pc]
    IN  IF Overflows(m, s) THEN Panic(m1, OverflowPanic) ELSE [m1 EXCEPT !.next_pc = s.v]

\* the size mmap allocates: a1 rounded up to the page size
mmap_size(a1) ==
    LET low == And32(a1, W(PAGE_ADDR_MASK))
    IN  IF low # ZeroWord
        THEN Add32(a1, Sub32(W(PAGE_SIZE), low).v)
        ELSE [v |-> a1, ovf |-> FALSE]

\* heap += size
heap_bump(h, size) == Add32(h, size)

sys_mmap(m, a0, a1) ==
    LET size == mmap_size(a1)
    IN  IF Overflows(m, size) THEN Stop(Panic(m, OverflowPanic))
        ELSE IF a0 = ZeroWord
        THEN LET h == heap_bump(m.heap, size.v)
             IN  IF Overflows(m, h) THEN Stop(Panic(m, OverflowPanic))
                 ELSE Ret([m EXCEPT !.heap = h.v], m.heap, ZeroWord)
        ELSE Ret(m, a0, ZeroWord)

sys_exit_group(m, a0) ==
    [m EXCEPT !.exited = TRUE, !.exit_code = a0[2] % 256]

\* out_mem[alignment..].copy_from_slice(&data[..data_len]) fits
read_copy_fits(alignment, data_len) == 4 - alignment = data_len

\* lines 166-172: the copy into the word, the store and the new offset
read_preimage_store(rp, mem, addr, alignment, data_len) ==
    LET out_mem == Take(to_be_bytes(mem), alignment) \o Take(rp.data, data_len)
        off == Add32(rp.m.preimage_offset, W(data_len))
        m3 == [rp.m EXCEPT !.memory = set_memory(@, addr, from_be_bytes(out_mem))]
    IN  IF Overflows(rp.m, off) THEN Stop(Panic(m3, OverflowPanic))
        ELSE Ret([m3 EXCEPT !.preimage_offset = off.v], W(data_len), ZeroWord)

\* lines 160-168: the number of bytes to copy and the copy's length check
read_preimage_copy(rp, mem, a1, a2) ==
    LET alignment == Alignment(a1)
        data_len == ToNat(Min32(W(Min(rp.data_len, 4 - alignment)), a2))
    IN  IF rp.m.status # "ok" THEN Stop(rp.m)
        ELSE IF ~read_copy_fits(alignment, data_len) THEN Stop(Panic(rp.m, SlicePanic))
        ELSE read_preimage_store(rp, mem, AlignWord(a1), alignment, data_len)

\* lines 158-159: the word at the address and the preimage bytes
read_preimage_fetch(m1, a1, a2) ==
    IF m1.status # "ok" THEN Stop(m1)
    ELSE read_preimage_copy(read_preimage(m1, m1.preimage_key, m1.preimage_offset),
                            get_memory(m1.memory, AlignWord(a1)), a1, a2)

sys_read_preimage(m, a1, a2) ==
    read_preimage_fetch(track_memory_access(m, AlignWord(a1)), a1, a2)

sys_read(m, a0, a1, a2) ==
    IF a0 = W(FD_STDIN) THEN Ret(m, ZeroWord, ZeroWord)
    ELSE IF a0 = W(FD_PREIMAGE_READ) THEN sys_read_preimage(m, a1, a2)
    ELSE IF a0 = W(FD_HINT_READ) THEN Ret(m, a2, ZeroWord)
    ELSE Ret(m, AllOnes, W(MIPS_EBADF))

\* the loop's test: hint_len >= self.state.last_hint[4..].len()
hint_ready(hint_len, rest) == hint_len[1] > 0 \/ hint_len[2] >= rest

\* last_hint[4..(4 + hint_len)] is inside the buffer
hint_in_range(hint_len, rest) == hint_len[1] = 0 /\ hint_len[2] <= rest

\* the payload taken from the start of the buffer, header included
hint_payload_from_start(buf, n) == SubSeq(buf, 1, n)

\* last_hint[4..(4 + hint_len)]
hint_payload(buf, n) == SubSeq(buf, 5, 4 + n)

\* last_hint.split_off(4 + hint_len)
hint_split_off(buf, n) == Drop(buf, 4 + n)

\* while self.state.last_hint.len() > 4 { ... }: an iteration whose test
\* fails changes nothing, so the loop never ends
RECURSIVE hint_loop(_)
hint_loop(m) ==
    IF ~(Len(m.last_hint) > 4) THEN m
    ELSE
    LET hint_len == from_be_bytes(Take(m.last_hint, 4))
        rest == Len(m.last_hint) - 4
    IN  IF hint_ready(hint_len, rest)
        THEN IF ~hint_in_range(hint_len, rest) THEN Panic(m, SlicePanic)
             ELSE hint_loop([m EXCEPT
                      !.last_hint = hint_split_off(m.last_hint, hint_len[2]),
                      !.oracle_hints = Append(@, hint_payload(m.last_hint, hint_len[2]))])
        ELSE [m EXCEPT !.status = "hung"]

sys_write_hint(m, a1, a2) ==
    LET hint_data == read_memory_range(m.memory, a1, ToNat(a2))
        m1 == hint_loop([m EXCEPT !.last_hint = @ \o hint_data])
    IN  IF m1.status # "ok" THEN Stop(m1) ELSE Ret(m1, ZeroWord, ZeroWord)

\* dst.copy_from_slice(src) panics unless the lengths are equal
copy_from_slice_ok(dst_len, src_len) == dst_len = src_len

sys_write_preimage(m, a1, a2) ==
    LET addr == AlignWord(a1)
        m1 == track_memory_access(m, addr)
    IN  IF m1.status # "ok" THEN Stop(m1)
        ELSE
        LET out_mem == get_memory(m1.memory, addr)
            alignment == Alignment(a1)
            space == 4 - alignment
            n == ToNat(Min32(a2, W(space)))
            tail == Drop(m1.preimage_key, n)
        IN  IF ~copy_from_slice_ok(KeyLen, Len(tail)) THEN Stop(Panic(m1, SlicePanic))
            ELSE IF ~copy_from_slice_ok(n, Len(to_be_bytes(out_mem))) THEN Stop(Panic(m1, SlicePanic))
            ELSE Ret([m1 EXCEPT
                         !.preimage_key = Take(tail, KeyLen - n) \o to_be_bytes(out_mem),
                         !.preimage_offset = ZeroWord],
                     W(n), ZeroWord)

sys_write(m, a0, a1, a2) ==
    IF a0 = W(FD_STDOUT)
    THEN Ret([m EXCEPT !.stdout_writer = @ \o read_memory_range(m.memory, a1, ToNat(a2))],
             a2, ZeroWord)
    ELSE IF a0 = W(FD_STDERR)
    THEN Ret([m EXCEPT !.stderr_writer = @ \o read_memory_range(m.memory, a1, ToNat(a2))],
             a2, ZeroWord)
    ELSE IF a0 = W(FD_HINT_WRITE) THEN sys_write_hint(m, a1, a2)
    ELSE IF a0 = W(FD_PREIMAGE_WRITE) THEN sys_write_preimage(m, a1, a2)
    ELSE Ret(m, AllOnes, W(MIPS_EBADF))

\* an fcntl that reports O_RDONLY for every descriptor and command
sys_fcntl_accepts(m, a0, a1) == Ret(m, ZeroWord, ZeroWord)

sys_fcntl(m, a0, a1) ==
    IF a1 = W(3)
    THEN IF a0 \in {W(FD_STDIN), W(FD_PREIMAGE_READ), W(FD_HINT_READ)}
         THEN Ret(m, ZeroWord, ZeroWord)
         ELSE IF a0 \in {W(FD_STDOUT), W(FD_STDERR), W(FD_PREIMAGE_WRITE), W(FD_HINT_WRITE)}
         THEN Ret(m, W(1), ZeroWord)
         ELSE Ret(m, AllOnes, W(MIPS_EBADF))
    ELSE Ret(m, AllOnes, W(MIPS_EBADF))

\* the match on syscall_num, exit_group apart
syscall_arm(m, syscall_num, a0, a1, a2) ==
    IF syscall_num = W(SYS_MMAP) THEN sys_mmap(m, a0, a1)
    ELSE IF syscall_num = W(SYS_BRK) THEN Ret(m, BrkResult, ZeroWord)
    ELSE IF syscall_num = W(SYS_CLONE) THEN Ret(m, W(1), ZeroWord)
    ELSE IF syscall_num = W(SYS_READ) THEN sys_read(m, a0, a1, a2)
    ELSE IF syscall_num = W(SYS_WRITE) THEN sys_write(m, a0, a1, a2)
    ELSE IF syscall_num = W(SYS_FCNTL) THEN sys_fcntl(m, a0, a1)
    ELSE Ret(m, ZeroWord, ZeroWord)

\* registers[2] = v0; registers[7] = v1; pc = next_pc; next_pc = next_pc + 4
syscall_tail(r) ==
    IF r.m.status # "ok" THEN r.m
    ELSE advance_pc([r.m EXCEPT !.registers[2] = r.v0, !.registers[7] = r.v1])

handle_syscall(m) ==
    IF m.registers[2] = W(SYS_EXIT_GROUP) THEN sys_exit_group(m, m.registers[4])
    ELSE syscall_tail(syscall_arm(m, m.registers[2], m.registers[4],
                                  m.registers[5], m.registers[6]))

-----------------------------------------------------------------------------
(* Shifts by a u32 amount, sign_extension, multiplication and division      *)

\* a value with the overflow it met on the way (the value is the wrapped one)
Val(v) == [v |-> v, ovf |-> FALSE]

\* w << amt and w >> amt: an amount of 32 or more overflows, and wraps to
\* amt & 31 without overflow checks
ShlW(w, amt) ==
    [v |-> Shl32(w, amt[2] % 32), ovf |-> amt[1] > 0 \/ amt[2] >= 32]

ShrW(w, amt) ==
    [v |-> Shr32(w, amt[2] % 32), ovf |-> amt[1] > 0 \/ amt[2] >= 32]

\* dat taken as it is, without the extension
sign_extension_none(dat, idx) == Val(dat)

\* fn sign_extension(dat: u32, idx: u32) -> u32
sign_extension(dat, idx) ==
    LET idx1 == Sub32(idx, W(1))
        top == ShrW(dat, idx1.v)
        is_signed == top.v # ZeroWord
        width == Sub32(W(32), idx)
        one == ShlW(W(1), width.v)
        ones == Sub32(one.v, W(1))
        signed == ShlW(ones.v, idx)
        bit == ShlW(W(1), idx)
        mask == Sub32(bit.v, W(1))
    IN  [v |-> IF is_signed THEN Or32(And32(dat, mask.v), signed.v)
               ELSE And32(dat, mask.v),
         ovf |-> idx1.ovf \/ top.ovf \/ width.ovf \/ one.ovf \/ ones.ovf
                 \/ signed.ovf \/ bit.ovf \/ mask.ovf]

\* the four bytes of a word, least significant first
Limbs(w) == <<w[2] % 256, w[2] \div 256, w[1] % 256, w[1] \div 256>>

\* the sum of the byte products of weight 256^k
MulCol(a, b, k) ==
    LET t(i) == IF k - i \in 0..3 THEN a[i + 1] * b[k - i + 1] ELSE 0
    IN  t(0) + t(1) + t(2) + t(3)

\* rs as u64 * rt as u64: <<upper word, lower word>> of the 64-bit product
Mul64(x, y) ==
    LET a == Limbs(x)
        b == Limbs(y)
        c0 == MulCol(a, b, 0)
        c1 == MulCol(a, b, 1) + (c0 \div 256)
        c2 == MulCol(a, b, 2) + (c1 \div 256)
        c3 == MulCol(a, b, 3) + (c2 \div 256)
        c4 == MulCol(a, b, 4) + (c3 \div 256)
        c5 == MulCol(a, b, 5) + (c4 \div 256)
        c6 == MulCol(a, b, 6) + (c5 \div 256)
        c7 == c6 \div 256
    IN  << <<(c7 % 256) * 256 + (c6 % 256), (c5 % 256) * 256 + (c4 % 256)>>,
           <<(c3 % 256) * 256 + (c2 % 256), (c1 % 256) * 256 + (c0 % 256)>> >>

\* |w as i32| as a u32
Abs32(w) == IF Neg32(w) THEN Sub32(ZeroWord, w).v ELSE w

\* -w, wrapped
Negate32(w) == Sub32(ZeroWord, w).v

IntMin == <<32768, 0>>

\* the product of the magnitudes does not fit an i32 of the sign neg
mul_i32_overflows(p, neg) ==
    p[1] # ZeroWord \/ (IF neg THEN Lt32(IntMin, p[2]) ELSE Neg32(p[2]))

\* ((rs as i32) * (rt as i32)) as u32
mul_i32(rs, rt) ==
    [v |-> Mul64(rs, rt)[2],
     ovf |-> mul_i32_overflows(Mul64(Abs32(rs), Abs32(rt)), Neg32(rs) # Neg32(rt))]

\* unsigned long division, one bit of the dividend per round:
\* <<quotient, remainder>> of a by b, b # 0
RECURSIVE DivStep(_, _, _, _, _)
DivStep(a, b, i, q, r) ==
    IF i < 0 THEN <<q, r>>
    ELSE
    LET carry == Neg32(r)
        bit == Shr32(a, i)[2] % 2
        r2 == <<Shl32(r, 1)[1], Shl32(r, 1)[2] + bit>>
        take == carry \/ ~Lt32(r2, b)
    IN  IF take
        THEN CHOOSE d \in {DivStep(a, b, i - 1, q1, r1) :
                              q1 \in {Add32(q, Shl32(W(1), i)).v},
                              r1 \in {Sub32(r2, b).v}} : TRUE
        ELSE CHOOSE d \in {DivStep(a, b, i - 1, q, r1) : r1 \in {r2}} : TRUE

DivU32(a, b) == DivStep(a, b, 31, ZeroWord, ZeroWord)

\* (rs as i32) / (rt as i32) and (rs as i32) % (rt as i32), rt # 0 and not
\* i32::MIN / -1: the quotient truncates toward zero, the remainder has the
\* sign of rs
\* the signs of the quotient and remainder, from those of the magnitudes
div_signs(d, rs, rt) ==
    <<IF Neg32(rs) # Neg32(rt) THEN Negate32(d[1]) ELSE d[1],
      IF Neg32(rs) THEN Negate32(d[2]) ELSE d[2]>>

DivI32(rs, rt) == div_signs(DivU32(Abs32(rs), Abs32(rt)), rs, rt)

-----------------------------------------------------------------------------
(* Instruction fields                                                       *)

\* insn >> 26
Opcode(insn) == insn[1] \div 1024

\* (insn >> 21) & 0x1f
RsReg(insn) == (insn[1] \div 32) % 32

\* (insn >> 16) & 0x1f
RtReg(insn) == insn[1] % 32

\* (insn >> 11) & 0x1f
RdReg(insn) == insn[2] \div 2048

\* (insn >> 6) & 0x1f
Shamt(insn) == (insn[2] \div 64) % 32

\* insn & 0x3f
Fun(insn) == insn[2] % 64

\* insn & 0xFFFF
Imm16(insn) == <<0, insn[2]>>

\* insn & 0x03ffFFff
Target26(insn) == <<insn[1] % 1024, insn[2]>>

-----------------------------------------------------------------------------
(* handle_branch, handle_jump, handle_hilo, handle_rd                       *)

\* the test handle_branch makes of its insn argument before anything else
branch_insn_ok(insn) == ~(insn # W(0) /\ insn # W(1))

\* the opcodes handle_branch knows
branch_opcode_ok(opcode) == opcode \in {4, 5, 6, 7, 1}

should_branch(m, opcode, insn, rt_reg, rs) ==
    IF opcode \in {4, 5}
    THEN LET rt == m.registers[rt_reg]
         IN  (rs = rt /\ opcode = 4) \/ (rs # rt /\ opcode = 5)
    ELSE IF opcode = 6 THEN Neg32(rs) \/ rs = ZeroWord
    ELSE IF opcode = 7 THEN ~(Neg32(rs) \/ rs = ZeroWord)
    ELSE LET rtv == RtReg(insn)
         IN  IF rtv = 0 THEN Neg32(rs) ELSE ~Neg32(rs)

\* prev_pc + 4 + (sign_extension(insn&0xFFFF, 16) << 2)
branch_target(prev_pc, insn) ==
    LET se == sign_extension(Imm16(insn), W(16))
        t1 == Add32(prev_pc, W(4))
        t2 == Add32(t1.v, Shl32(se.v, 2))
    IN  [v |-> t2.v, ovf |-> se.ovf \/ t1.ovf \/ t2.ovf]

\* self.state.pc = self.state.next_pc; self.state.next_pc = t
branch_to(m, t) ==
    IF Overflows(m, t) THEN Panic([m EXCEPT !.pc = m.next_pc], OverflowPanic)
    ELSE [m EXCEPT !.pc = m.next_pc, !.next_pc = t.v]

handle_branch(m, opcode, insn, rt_reg, rs) ==
    IF ~branch_insn_ok(insn) THEN Panic(m, BranchInsnPanic)
    ELSE IF ~branch_opcode_ok(opcode) THEN Panic(m, BranchOpcodePanic)
    ELSE branch_to(m, IF should_branch(m, opcode, insn, rt_reg, rs)
                      THEN branch_target(m.pc, insn)
                      ELSE Add32(m.next_pc, W(4)))

\* the link register is written iff link_reg != 0
jump_links(link_reg) == link_reg # 0

handle_jump(m, link_reg, dest) ==
    LET prev_pc == m.pc
        m1 == [m EXCEPT !.pc = m.next_pc, !.next_pc = dest]
        ra == Add32(prev_pc, W(8))
    IN  IF jump_links(link_reg)
        THEN IF Overflows(m, ra) THEN Panic(m1, OverflowPanic)
             ELSE IF link_reg >= 32 THEN Panic(m1, SlicePanic)
             ELSE [m1 EXCEPT !.registers[link_reg] = ra.v]
        ELSE m1

\* a writeback that does not spare register 0
writes_reg_any(store_reg, conditional) == conditional

\* handle_hilo and handle_rd write the register iff store_reg != 0
\* (and the move's condition holds)
writes_reg(store_reg, conditional) == store_reg # 0 /\ conditional

hilo_tail(m, store_reg, val) ==
    advance_pc(IF writes_reg(store_reg, TRUE)
               THEN [m EXCEPT !.registers[store_reg] = val]
               ELSE m)

\* hi and lo from the <<hi, lo>> pair a multiplication or a division left
set_hilo(m, acc, store_reg) ==
    hilo_tail([m EXCEPT !.hi = acc[1], !.lo = acc[2]], store_reg, ZeroWord)

\* mult: (rs as i64 * rt as i64) of the zero-extended operands
hilo_mult(m, acc, store_reg) ==
    IF m.overflow_checks /\ Neg32(acc[1]) THEN Panic(m, OverflowPanic)
    ELSE set_hilo(m, acc, store_reg)

\* the <<remainder, quotient>> pair of a <<quotient, remainder>> pair
hilo_of_div(d) == <<d[2], d[1]>>

\* a division that never takes its divisor for zero
divisor_is_zero_never(rt) == FALSE

\* rs % rt and rs / rt panic when the divisor is zero
divisor_is_zero(rt) == rt = ZeroWord

handle_hilo(m, fun, rs, rt, store_reg) ==
    IF fun = 16 THEN hilo_tail(m, store_reg, m.hi)
    ELSE IF fun = 17 THEN hilo_tail([m EXCEPT !.hi = rs], store_reg, ZeroWord)
    ELSE IF fun = 18 THEN hilo_tail(m, store_reg, m.lo)
    ELSE IF fun = 19 THEN hilo_tail([m EXCEPT !.lo = rs], store_reg, ZeroWord)
    ELSE IF fun = 24 THEN hilo_mult(m, Mul64(rs, rt), store_reg)
    ELSE IF fun = 25 THEN set_hilo(m, Mul64(rs, rt), store_reg)
    ELSE IF fun = 26
    THEN IF divisor_is_zero(rt) \/ (rs = IntMin /\ rt = AllOnes) THEN Panic(m, DividePanic)
         ELSE set_hilo(m, hilo_of_div(DivI32(rs, rt)), store_reg)
    ELSE IF fun = 27
    THEN IF divisor_is_zero(rt) THEN Panic(m, DividePanic)
         ELSE set_hilo(m, hilo_of_div(DivU32(rs, rt)), store_reg)
    ELSE Panic(m, HiLoPanic)

handle_rd(m, store_reg, val, conditional) ==
    IF store_reg >= 32 THEN Panic(m, RegisterPanic)
    ELSE advance_pc(IF writes_reg(store_reg, conditional)
                    THEN [m EXCEPT !.registers[store_reg] = val]
                    ELSE m)

-----------------------------------------------------------------------------
(* execute: the ALU / load / store value function                           *)

\* the result of execute: a value, the overflow met, or the final panic!
Invalid == [v |-> ZeroWord, ovf |-> FALSE, bad |-> TRUE]

Res(r) == [v |-> r.v, ovf |-> r.ovf, bad |-> FALSE]

\* the funct code an ArithLogI opcode is turned into
arith_imm_fun(opcode, fun) ==
    IF opcode = 8 THEN 32
    ELSE IF opcode = 9 THEN 33
    ELSE IF opcode = 10 THEN 42
    ELSE IF opcode = 11 THEN 43
    ELSE IF opcode = 12 THEN 36
    ELSE IF opcode = 13 THEN 37
    ELSE IF opcode = 14 THEN 38
    ELSE fun

\* while rs & 0x80000000 != 0 { rs <<= 1; i += 1; }
RECURSIVE leading_ones(_)
leading_ones(w) == IF Neg32(w) THEN 1 + leading_ones(Shl32(w, 1)) ELSE 0

\* sign_extension(rt >> amt, 32 - amt) for sra (amt = shamt) and srav (amt = rs)
shift_right_arith(rt, amt) ==
    LET sh == ShrW(rt, amt)
        idx == Sub32(W(32), amt)
        se == sign_extension(sh.v, idx.v)
    IN  [v |-> se.v, ovf |-> sh.ovf \/ idx.ovf \/ se.ovf]

\* the match on fun of the R-type (ArithLog) instructions
arith_log(fun, rs, rt) ==
    IF fun \in {32, 33} THEN Res(Add32(rs, rt))
    ELSE IF fun \in {34, 35} THEN Res(Sub32(rs, rt))
    ELSE IF fun = 36 THEN Res(Val(And32(rs, rt)))
    ELSE IF fun = 37 THEN Res(Val(Xor32(rs, rt)))
    ELSE IF fun = 39 THEN Res(Val(Not32(Or32(rs, rt))))
    ELSE IF fun = 42 THEN Res(Val(IF SLt32(rs, rt) THEN W(1) ELSE W(0)))
    ELSE IF fun = 43 THEN Res(Val(IF Lt32(rs, rt) THEN W(1) ELSE W(0)))
    ELSE Invalid

\* opcode 0 after the ArithLogI transformation
special(insn, fun, rs, rt) ==
    LET shamt == Shamt(insn)
    IN  IF fun < 32 /\ fun >= 8 THEN Res(Val(rs))
        ELSE IF fun = 0 THEN Res(Val(Shl32(rt, shamt)))
        ELSE IF fun = 2 THEN Res(Val(Shr32(rt, shamt)))
        ELSE IF fun = 3 THEN Res(shift_right_arith(rt, W(shamt)))
        ELSE IF fun = 4 THEN Res(Val(Shl32(rt, rs[2] % 32)))
        ELSE IF fun = 6 THEN Res(Val(Shr32(rt, rs[2] % 32)))
        ELSE IF fun = 7 THEN Res(shift_right_arith(rt, rs))
        ELSE arith_log(fun, rs, rt)

\* opcode 0x1c
special2(fun, rs, rt) ==
    IF fun = 2 THEN Res(mul_i32(rs, rt))
    ELSE IF fun = 32 THEN Res(Val(W(leading_ones(Not32(rs)))))
    ELSE IF fun = 33 THEN Res(Val(W(leading_ones(rs))))
    ELSE Invalid

\* 24 - (rs&3)*8 and 16 - (rs&2)*8
ByteLane(rs) == 24 - (rs[2] % 4) * 8

HalfLane(rs) == 16 - ((rs[2] \div 2) % 2) * 2 * 8

loads(opcode, rs, rt, mem) ==
    IF opcode = 32
    THEN Res(sign_extension(And32(Shr32(mem, ByteLane(rs)), W(255)), W(8)))
    ELSE IF opcode = 33
    THEN Res(sign_extension(And32(Shr32(mem, HalfLane(rs)), W(65535)), W(16)))
    ELSE IF opcode = 34
    THEN LET val == Shl32(mem, (rs[2] % 4) * 8)
             mask == Shl32(AllOnes, (rs[2] % 4) * 8)
         IN  Res(Val(Or32(And32(rt, Not32(mask)), val)))
    ELSE IF opcode = 35 THEN Res(Val(mem))
    ELSE IF opcode = 36 THEN Res(Val(And32(Shr32(mem, ByteLane(rs)), W(255))))
    ELSE IF opcode = 37 THEN Res(Val(And32(Shr32(mem, HalfLane(rs)), W(65535))))
    ELSE IF opcode = 38
    THEN LET val == Shr32(mem, ByteLane(rs))
             mask == Shr32(AllOnes, ByteLane(rs))
         IN  Res(Val(Or32(And32(rt, Not32(mask)), val)))
    ELSE Invalid

stores(opcode, rs, rt, mem) ==
    IF opcode = 40
    THEN LET val == Shl32(And32(rt, W(255)), ByteLane(rs))
             mask == Xor32(AllOnes, Shl32(W(255), ByteLane(rs)))
         IN  Res(Val(Or32(And32(mem, mask), val)))
    ELSE IF opcode = 41
    THEN LET val == Shl32(And32(rt, W(65535)), HalfLane(rs))
             mask == Xor32(AllOnes, Shl32(W(65535), HalfLane(rs)))
         IN  Res(Val(Or32(And32(mem, mask), val)))
    ELSE IF opcode = 42
    THEN LET val == Shr32(rt, (rs[2] % 4) * 8)
             mask == Shr32(AllOnes, (rs[2] % 4) * 8)
         IN  Res(Val(Or32(And32(mem, Not32(mask)), val)))
    ELSE IF opcode = 43 THEN Res(Val(rt))
    ELSE IF opcode = 46
    THEN LET val == Shl32(rt, ByteLane(rs))
             mask == Shl32(AllOnes, ByteLane(rs))
         IN  Res(Val(Or32(And32(mem, Not32(mask)), val)))
    ELSE IF opcode = 48 THEN Res(Val(mem))
    ELSE IF opcode = 56 THEN Res(Val(rt))
    ELSE Invalid

execute(insn, rs, rt, mem) ==
    LET opcode0 == Opcode(insn)
        arith_imm == opcode0 >= 8 /\ opcode0 < 15
        fun == IF arith_imm THEN arith_imm_fun(opcode0, Fun(insn)) ELSE Fun(insn)
        opcode == IF arith_imm THEN 0 ELSE opcode0
    IN  IF opcode < 32
        THEN IF opcode = 0 THEN special(insn, fun, rs, rt)
             ELSE IF opcode = 15 THEN Res(Val(Shl32(rt, 16)))
             ELSE IF opcode = 28 THEN special2(fun, rs, rt)
             ELSE Invalid
        ELSE IF opcode < 40 THEN loads(opcode, rs, rt, mem)
        ELSE stores(opcode, rs, rt, mem)

-----------------------------------------------------------------------------
(* mips_step                                                                *)

\* the second operand of an R-type instruction: rt = self.state.registers[rt as usize],
\* read while rt still holds its initial 0
rtype_rt(m, rt_reg) == m.registers[0]

\* the operand rt as mips_step decodes it
decode_rt(m, insn) ==
    LET opcode == Opcode(insn)
    IN  IF opcode = 0 \/ opcode = 28 THEN rtype_rt(m, RtReg(insn))
        ELSE IF opcode < 32
        THEN IF opcode \in {12, 13, 14} THEN Imm16(insn)
             ELSE sign_extension(Imm16(insn), W(16)).v
        ELSE IF opcode >= 40 \/ opcode = 34 \/ opcode = 38
        THEN m.registers[RtReg(insn)]
        ELSE ZeroWord

\* the destination register as mips_step decodes it
decode_rd_reg(insn) ==
    IF Opcode(insn) = 0 \/ Opcode(insn) = 28 THEN RdReg(insn) ELSE RtReg(insn)

\* the stores without sc
is_store_not_sc(opcode) == opcode >= 40 /\ opcode < 48

\* opcode >= 0x28 && opcode != 0x30
is_store(opcode) == opcode >= 40 /\ opcode # 48

\* lines 492-501: the store and the register writeback
store_and_rd(m, val, store_addr, rd_reg) ==
    IF m.status # "ok" THEN m
    ELSE handle_rd(IF store_addr # AllOnes
                   THEN [m EXCEPT !.memory = set_memory(@, store_addr, val)]
                   ELSE m,
                   rd_reg, val, TRUE)

\* lines 489-501: sc's write of 1, the store, the register writeback
writeback(m, insn, val, store_addr, rd_reg) ==
    store_and_rd(IF store_addr # AllOnes
                 THEN track_memory_access(
                          IF Opcode(insn) = 56 /\ RtReg(insn) # 0
                          THEN [m EXCEPT !.registers[RtReg(insn)] = W(1)]
                          ELSE m,
                          store_addr)
                 ELSE IF Opcode(insn) = 56 /\ RtReg(insn) # 0
                 THEN [m EXCEPT !.registers[RtReg(insn)] = W(1)]
                 ELSE m,
                 val, store_addr, rd_reg)

\* lines 460-501: the dispatch on fun after execute returned r
step_dispatch(m, insn, rs, rt, r, store_addr, rd_reg) ==
    LET opcode == Opcode(insn)
        fun == Fun(insn)
    IN  IF m.status # "ok" THEN m
        ELSE IF r.bad THEN Panic(m, InstructionPanic)
        ELSE IF Overflows(m, r) THEN Panic(m, OverflowPanic)
        ELSE IF opcode = 0 /\ fun >= 8 /\ fun < 28 /\ (fun = 8 \/ fun = 9)
        THEN handle_jump(m, IF fun = 9 THEN rd_reg ELSE 0, rs)
        ELSE IF opcode = 0 /\ fun = 10 THEN handle_rd(m, rd_reg, rs, rt = ZeroWord)
        ELSE IF opcode = 0 /\ fun = 11 THEN handle_rd(m, rd_reg, rs, rt # ZeroWord)
        ELSE IF opcode = 0 /\ fun = 12 THEN handle_syscall(m)
        ELSE IF opcode = 0 /\ fun >= 16 /\ fun < 28
        THEN handle_hilo(m, fun, rs, rt, rd_reg)
        ELSE writeback(m, insn, r.v, store_addr, rd_reg)

\* lines 457-501: the ALU and the dispatch on fun, on the operands f that
\* the memory fetch left
step_alu(f, insn, rt) ==
    step_dispatch(f.m, insn, f.rs, rt, execute(insn, f.rs, rt, f.mem),
                  f.store_addr, f.rd_reg)

\* the operands of an instruction that does not touch memory
no_memory(m, rs, rd_reg) ==
    [m |-> m, rs |-> rs, mem |-> ZeroWord, store_addr |-> AllOnes, rd_reg |-> rd_reg]

\* lines 441-455: rs becomes the effective address, mem the word there;
\* a store keeps the address and clears rd_reg
memory_operand(m, opcode, ea, rd_reg) ==
    IF Overflows(m, ea) THEN no_memory(Panic(m, OverflowPanic), ea.v, rd_reg)
    ELSE [m |-> track_memory_access(m, AlignWord(ea.v)),
          rs |-> ea.v,
          mem |-> get_memory(m.memory, AlignWord(ea.v)),
          store_addr |-> IF is_store(opcode) THEN AlignWord(ea.v) ELSE AllOnes,
          rd_reg |-> IF is_store(opcode) THEN 0 ELSE rd_reg]

\* lines 439-455: the memory operand fetch
step_memory(m, insn, rs, rt, rd_reg) ==
    step_alu(IF Opcode(insn) >= 32
             THEN memory_operand(m, Opcode(insn),
                                 Add32(rs, sign_extension(Imm16(insn), W(16)).v), rd_reg)
             ELSE no_memory(m, rs, rd_reg),
             insn, rt)

\* mips_step without the test of exited
step_is_noop_never(m) == FALSE

\* if self.state.exited { return; }
step_is_noop(m) == m.exited

\* the target of j and jal without the sign extension
jump_dest_unsigned(insn) == Shl32(Target26(insn), 2)

\* the target of j and jal
jump_dest(insn) == Shl32(sign_extension(Target26(insn), W(26)).v, 2)

\* lines 395-502: the dispatch on the opcode of the fetched instruction
step_decoded(m0, insn, opcode, rs) ==
    IF opcode = 2 \/ opcode = 3
    THEN handle_jump(m0, IF opcode = 3 THEN 31 ELSE 0, jump_dest(insn))
    ELSE IF (opcode >= 4 /\ opcode < 8) \/ opcode = 1
    THEN handle_branch(m0, opcode, insn, RtReg(insn), rs)
    ELSE step_memory(m0, insn, rs, decode_rt(m0, insn), decode_rd_reg(insn))

\* lines 390-394: step += 1 and the fetch
step_fetch(m0, insn) ==
    step_decoded(m0, insn, Opcode(insn), m0.registers[RsReg(insn)])

mips_step(m) ==
    IF step_is_noop(m) THEN m
    ELSE step_fetch([m EXCEPT !.step = @ + 1], get_memory(m.memory, m.pc))

-----------------------------------------------------------------------------
(* Instruction words                                                        *)

IType(op, rs, rt, imm) == <<op * 1024 + rs * 32 + rt, imm>>

RType(rs, rt, rd, shamt, fun) == <<rs * 32 + rt, rd * 2048 + shamt * 64 + fun>>

JType(op, target) == <<op * 1024 + target[1], target[2]>>

NOP == W(0)

SYSCALL == RType(0, 0, 0, 0, 12)

ADDIU(rt, rs, imm) == IType(9, rs, rt, imm)

LUI(rt, imm) == IType(15, 0, rt, imm)

LW(rt, rs, imm) == IType(35, rs, rt, imm)

-----------------------------------------------------------------------------
(* The images the loader may start the machine from                         *)

\* the longest run checked
MaxSteps == 6

\* where the images keep their data: 0x100
DataBase == <<0, 256>>

\* register numbers of the syscall ABI and the link register
V0 == 2
A0 == 4
A1 == 5
A2 == 6
RA == 31

RegFile(ov) == [i \in 0..31 |-> IF i \in DOMAIN ov THEN ov[i] ELSE ZeroWord]

SysRegs(num, a0, a1, a2) == (V0 :> W(num)) @@ (A0 :> a0) @@ (A1 :> a1) @@ (A2 :> a2)

ZeroKey == Zeros(KeyLen)

\* a key whose blob has n bytes
KeyOf(n) == Zeros(KeyLen - 1) \o <<n>>

\* a key with 32 different bytes
MixedKey == [i \in 1..KeyLen |-> i]

Image(code, regs, data, hp, key, offset) ==
    [code |-> code, regs |-> regs, data |-> data, heap |-> hp, key |-> key,
     offset |-> offset]

\* the word of the data bytes that starts at byte 4k
DataWord(data, k) ==
    from_be_bytes([i \in 1..4 |-> IF 4 * k + i <= Len(data) THEN data[4 * k + i] ELSE 0])

\* the memory of an image: the code from address 0, the data from DataBase
LoadMemory(img) ==
    LET codeAddrs == {W(4 * (i - 1)) : i \in 1..Len(img.code)}
        nWords == (Len(img.data) + 3) \div 4
        dataAddrs == {Add32(DataBase, W(4 * k)).v : k \in 0..(nWords - 1)}
    IN  [a \in codeAddrs \cup dataAddrs |->
            IF a \in codeAddrs THEN img.code[(ToNat(a) \div 4) + 1]
            ELSE DataWord(img.data, (ToNat(a) - ToNat(DataBase)) \div 4)]

InitHeap == <<8192, 0>>

\* exit_group with several exit codes
ExitImages ==
    {Image(<<SYSCALL, ADDIU(V0, 0, SYS_EXIT_GROUP), SYSCALL>>,
           SysRegs(SYS_EXIT_GROUP, a0, ZeroWord, ZeroWord), <<>>, InitHeap, ZeroKey, ZeroWord)
        : a0 \in {W(0), W(42), W(298), AllOnes}}
    \cup
    {Image(<<ADDIU(A0, 0, c), SYSCALL, NOP>>,
           SysRegs(SYS_EXIT_GROUP, ZeroWord, ZeroWord, ZeroWord), <<>>, InitHeap, ZeroKey, ZeroWord)
        : c \in {1, 255, 511}}

MmapSizes == {W(0), W(1), W(4096), W(4097), <<32768, 0>>, <<32767, 61441>>, AllOnes}

\* three mmap calls; the second and third may come with another size
MmapImages ==
    {Image(<<SYSCALL, ADDIU(V0, 0, SYS_MMAP), SYSCALL, ADDIU(V0, 0, SYS_MMAP), second, SYSCALL>>,
           SysRegs(SYS_MMAP, a0, a1, ZeroWord), <<>>, hp, ZeroKey, ZeroWord)
        : a0 \in {ZeroWord, W(12288)}, a1 \in MmapSizes,
          hp \in {InitHeap, <<65535, 61440>>},
          second \in {NOP, LUI(A1, 32768), ADDIU(A1, 0, 100)}}

\* two hint records, "abc" and "de", back to back
HintData1 == <<0, 0, 0, 3, 97, 98, 99, 0, 0, 0, 2, 100, 101>>

\* an empty hint record followed by the record "x"
HintData2 == <<0, 0, 0, 0, 0, 0, 0, 1, 120>>

\* two writes to the hint fd: the first n1 bytes of the data, then n2 bytes
\* from where the first write ended or from byte s2
HintImages ==
    {Image(<<SYSCALL, ADDIU(V0, 0, SYS_WRITE), ADDIU(A1, 0, 256 + s2), ADDIU(A2, 0, n2), SYSCALL>>,
           SysRegs(SYS_WRITE, W(FD_HINT_WRITE), DataBase, W(n1)), d, InitHeap, ZeroKey, ZeroWord)
        : d \in {HintData1}, n1 \in {0, 3, 4, 5, 7, 9, 13}, s2 \in {0, 5, 7}, n2 \in {0, 2, 4, 6, 7}}
    \cup
    {Image(<<SYSCALL, ADDIU(V0, 0, SYS_WRITE), ADDIU(A1, 0, 256 + s2), ADDIU(A2, 0, n2), SYSCALL>>,
           SysRegs(SYS_WRITE, W(FD_HINT_WRITE), DataBase, W(n1)), d, InitHeap, ZeroKey, ZeroWord)
        : d \in {HintData2}, n1 \in {4, 8, 9}, s2 \in {4}, n2 \in {0, 5}}

\* a write to the preimage-write fd, for every alignment and several counts
PreimageWriteImages ==
    {Image(<<SYSCALL, NOP>>,
           SysRegs(SYS_WRITE, W(FD_PREIMAGE_WRITE), Add32(DataBase, W(al)).v, a2),
           <<17, 34, 51, 68>>, InitHeap, key, W(5))
        : al \in 0..3, a2 \in {W(0), W(1), W(2), W(3), W(4), W(5), AllOnes},
          key \in {ZeroKey, MixedKey}}

\* two reads from the preimage-read fd
PreimageReadImages ==
    {Image(<<SYSCALL, ADDIU(V0, 0, SYS_READ), SYSCALL>>,
           SysRegs(SYS_READ, W(FD_PREIMAGE_READ), Add32(DataBase, W(al)).v, a2),
           <<17, 34, 51, 68>>, InitHeap, KeyOf(n), W(off))
        : al \in 0..3, a2 \in {W(0), W(1), W(4), W(8)}, n \in {0, 3, 30},
          off \in {0, 4, 8, 10, 11, 12}}

\* the other syscalls and file descriptors
SyscallImages ==
    {Image(<<SYSCALL, NOP>>, SysRegs(num, W(fd), a1, W(2)), <<104, 105>>, InitHeap,
           ZeroKey, ZeroWord)
        : num \in {SYS_READ, SYS_WRITE, SYS_FCNTL, SYS_BRK, SYS_CLONE, 0},
          fd \in 0..7, a1 \in {W(3), DataBase}}

\* the conditional branches, taken and not taken, forward and backward
BranchOps ==
    {IType(4, 8, 9, off) : off \in {2, 65535}} \cup
    {IType(5, 8, 9, off) : off \in {2, 65535}} \cup
    {IType(6, 8, 0, off) : off \in {2, 65535}} \cup
    {IType(7, 8, 0, off) : off \in {2, 65535}} \cup
    {IType(1, 8, 0, off) : off \in {2, 65535}} \cup
    {IType(1, 8, 1, off) : off \in {2, 65535}}

BranchImages ==
    {Image(<<NOP, b, ADDIU(10, 0, 1), ADDIU(11, 0, 2)>>,
           (8 :> t0) @@ (9 :> t1), <<>>, InitHeap, ZeroKey, ZeroWord)
        : b \in BranchOps, t0 \in {W(0), W(1), AllOnes}, t1 \in {W(0), W(1)}}

\* j, jal, jr and jalr, also in the delay slot of another jump
JumpOps ==
    {JType(2, <<0, 4>>), JType(3, <<0, 4>>), JType(2, <<1023, 65535>>),
     JType(3, <<512, 3>>), JType(3, <<256, 3>>), RType(8, 0, 0, 0, 8), RType(8, 0, 31, 0, 9),
     RType(8, 0, 0, 0, 9), RType(8, 0, 5, 0, 9)}

JumpImages ==
    {Image(first \o <<j, ADDIU(10, 0, 1), ADDIU(11, 0, 2), ADDIU(12, 0, 3)>>,
           (8 :> t0) @@ (9 :> W(12)), <<>>, InitHeap, ZeroKey, ZeroWord)
        : first \in {<<>>, <<NOP>>, <<RType(9, 0, 0, 0, 8)>>}, j \in JumpOps,
          t0 \in {W(16), AllOnes, <<4660, 22136>>}}

\* instructions that write a register, with destination 0 and otherwise
WriteOps(d) ==
    {RType(8, 9, d, 0, 33), ADDIU(d, 8, 5), IType(13, 8, d, 255), IType(14, 8, d, 255),
     LUI(d, 7),
     LW(d, 10, 0), LW(d, 10, 4), IType(32, 10, d, 1), IType(36, 10, d, 2),
     IType(34, 10, d, 1), IType(48, 10, d, 0), IType(56, 10, d, 0),
     IType(43, 10, d, 4), IType(40, 10, d, 3),
     RType(8, 0, d, 0, 9), RType(0, 0, d, 0, 16), RType(0, 0, d, 0, 18),
     RType(8, 9, d, 0, 10), RType(8, 9, d, 0, 11), RType(8, 9, d, 0, 24),
     RType(0, 8, d, 3, 0), RType(0, 8, d, 3, 3),
     IType(28, 8, 9, d * 2048 + 2), IType(28, 8, 9, d * 2048 + 33)}

AluImages ==
    {Image(<<i1, i2>>, (8 :> W(20)) @@ (9 :> t1) @@ (10 :> DataBase),
           <<129, 2, 3, 4, 5, 6, 7, 8>>, InitHeap, ZeroKey, ZeroWord)
        : i1 \in WriteOps(0) \cup WriteOps(3),
          i2 \in {LW(0, 10, 4), LW(3, 10, 0), RType(0, 0, 0, 0, 16),
                  RType(8, 9, 3, 0, 24), RType(8, 0, 3, 0, 17),
                  RType(8, 9, 0, 0, 26), RType(8, 9, 0, 0, 27)},
          t1 \in {W(0), W(3)}}

\* lb, lh, lbu and lhu at every byte of a word, over words with the top bit
\* of each byte set and clear
LoadImages ==
    {Image(<<IType(op, 10, 3, off), NOP>>, (10 :> DataBase), d, InitHeap, ZeroKey, ZeroWord)
        : op \in {32, 33, 36, 37}, off \in 0..3,
          d \in {<<129, 2, 131, 4>>, <<1, 130, 3, 132>>, <<255, 255, 0, 128>>}}

\* sb, sh, swl, sw, swr and sc at every byte of a word, with a positive and
\* a negative offset, from register 0 and from another register
StoreImages ==
    {Image(<<IType(op, a[1], rt, a[2]), NOP>>,
           (3 :> <<4660, 22136>>) @@ (10 :> DataBase) @@ (11 :> Add32(DataBase, W(4)).v),
           <<129, 2, 3, 4, 5, 6, 7, 8>>, InitHeap, ZeroKey, ZeroWord)
        : op \in {40, 41, 42, 43, 46, 56},
          a \in {<<10, 0>>, <<10, 1>>, <<10, 2>>, <<10, 3>>, <<10, 4>>, <<11, 65532>>},
          rt \in {0, 3}}

Images ==
    ExitImages \cup MmapImages \cup HintImages \cup PreimageWriteImages
    \cup PreimageReadImages \cup SyscallImages \cup BranchImages \cup JumpImages
    \cup AluImages \cup LoadImages \cup StoreImages \cup {Image(<<>>, <<>>, <<>>, InitHeap, ZeroKey, ZeroWord)}

-----------------------------------------------------------------------------
(* The state machine                                                        *)

NoPrev == [valid |-> FALSE]

Init ==
    \E img \in Images, proof \in BOOLEAN, checks \in BOOLEAN,
       last \in {AllOnes, DataBase}, width \in UsizeWidths :
        /\ proof \/ last = AllOnes
        /\ memory = LoadMemory(img)
        /\ preimage_key = img.key
        /\ preimage_offset = img.offset
        /\ registers = RegFile(img.regs)
        /\ pc = W(0)
        /\ next_pc = W(4)
        /\ hi = W(7)
        /\ lo = W(9)
        /\ heap = img.heap
        /\ step = 0
        /\ exited = FALSE
        /\ exit_code = 0
        /\ last_hint = <<>>
        /\ last_mem_access = last
        /\ mem_proof_enabled = proof
        /\ mem_proof = ZeroWord
        /\ last_preimage = <<>>
        /\ last_preimage_key = ZeroKey
        /\ last_preimage_offset = ZeroWord
        /\ oracle_hints = <<>>
        /\ oracle_fetches = <<>>
        /\ stdout_writer = <<>>
        /\ stderr_writer = <<>>
        /\ status = "ok"
        /\ overflow_checks = checks
        /\ usize_bytes = width
        /\ prev = NoPrev

\* the engine's state becomes t
Becomes(t) ==
    /\ memory' = t.memory
    /\ preimage_key' = t.preimage_key
    /\ preimage_offset' = t.preimage_offset
    /\ registers' = t.registers
    /\ pc' = t.pc
    /\ next_pc' = t.next_pc
    /\ hi' = t.hi
    /\ lo' = t.lo
    /\ heap' = t.heap
    /\ step' = t.step
    /\ exited' = t.exited
    /\ exit_code' = t.exit_code
    /\ last_hint' = t.last_hint
    /\ last_mem_access' = t.last_mem_access
    /\ mem_proof_enabled' = t.mem_proof_enabled
    /\ mem_proof' = t.mem_proof
    /\ last_preimage' = t.last_preimage
    /\ last_preimage_key' = t.last_preimage_key
    /\ last_preimage_offset' = t.last_preimage_offset
    /\ oracle_hints' = t.oracle_hints
    /\ oracle_fetches' = t.oracle_fetches
    /\ stdout_writer' = t.stdout_writer
    /\ stderr_writer' = t.stderr_writer
    /\ status' = t.status
    /\ overflow_checks' = t.overflow_checks
    /\ usize_bytes' = t.usize_bytes

\* the caller invokes mips_step once more
Step ==
    /\ status = "ok"
    /\ step < MaxSteps
    /\ Becomes(mips_step(Cur))
    /\ prev' = [valid |-> TRUE, m |-> Cur, insn |-> get_memory(memory, pc)]

Next == Step

Spec == Init /\ [][Next]_vars

-----------------------------------------------------------------------------
(* Callers of the engine's public methods                                   *)

\* the calls a caller makes on one engine
MaxCalls == 3

\* an engine constructed on an empty memory, without memory proofs
InitCalls == Init /\ DOMAIN memory = {} /\ ~mem_proof_enabled

\* pub fn read_preimage(&mut self, key, offset): prev keeps the arguments,
\* the engine before the call and what the call returned
CallReadPreimage ==
    \E key \in {ZeroKey, KeyOf(3), KeyOf(30)}, offset \in {0, 4, 7, 8, 11, 12, 40} :
        /\ status = "ok"
        /\ Len(oracle_fetches) < MaxCalls
        /\ LET rp == read_preimage(Cur, key, W(offset))
           IN  /\ Becomes(rp.m)
               /\ prev' = [valid |-> FALSE, call |-> "read_preimage", m |-> Cur,
                           key |-> key, offset |-> offset,
                           data |-> rp.data, data_len |-> rp.data_len]

SpecPreimage == InitCalls /\ [][CallReadPreimage]_vars

\* pub fn handle_hilo(&mut self, fun, rs, rt, store_reg) for mult, multu,
\* div and divu: prev keeps the arguments and the registers before the call
CallHiLo ==
    \E fun \in {24, 25, 26, 27}, store_reg \in {0, 3},
       rs \in {W(7), IntMin, <<65535, 65529>>, AllOnes},
       rt \in {W(0), W(2), <<65535, 65534>>, AllOnes} :
        /\ status = "ok"
        /\ Lt32(pc, W(4 * MaxCalls))
        /\ Becomes(handle_hilo(Cur, fun, rs, rt, store_reg))
        /\ prev' = [valid |-> FALSE, call |-> "handle_hilo", registers |-> registers,
                    fun |-> fun, rs |-> rs, rt |-> rt, store_reg |-> store_reg]

SpecHiLo == InitCalls /\ [][CallHiLo]_vars

\* fn execute(&mut self, insn, rs, rt, mem) for sra with every shamt and for
\* srav with amounts below and above 32, as mips_step calls it and takes
\* its panics: prev keeps the arguments and the value returned
CallExecute ==
    \E c \in {<<3, shamt, W(0)>> : shamt \in 0..31}
              \cup {<<7, 0, rs>> : rs \in {W(0), W(1), W(31), W(32), W(33), W(68), AllOnes}},
       rt \in {W(0), W(5), IntMin, <<4660, 22136>>, <<65535, 65520>>} :
        /\ status = "ok"
        /\ LET insn == RType(0, 0, 0, c[2], c[1])
               r == execute(insn, c[3], rt, ZeroWord)
           IN  /\ Becomes(IF r.bad THEN Panic(Cur, InstructionPanic)
                          ELSE IF Overflows(Cur, r) THEN Panic(Cur, OverflowPanic)
                          ELSE Cur)
               /\ prev' = [valid |-> FALSE, call |-> "execute", insn |-> insn,
                           rs |-> c[3], rt |-> rt, result |-> r.v]

SpecExecute == InitCalls /\ [][CallExecute]_vars

-----------------------------------------------------------------------------
(* What the last mips_step call was about                                   *)

\* the last call executed an instruction (the machine had not exited)
Stepped == prev.valid /\ ~prev.m.exited

IsSyscall(insn) == Opcode(insn) = 0 /\ Fun(insn) = 12

\* the last call executed syscall number num
PrevSyscall(num) ==
    Stepped /\ IsSyscall(prev.insn) /\ prev.m.registers[V0] = W(num)

PrevA0 == prev.m.registers[A0]

PrevA1 == prev.m.registers[A1]

PrevA2 == prev.m.registers[A2]

\* the fields of the machine state other than exited and exit_code
MachineFields ==
    <<registers, pc, next_pc, hi, lo, heap, step, memory, preimage_key,
      preimage_offset, last_hint>>

-----------------------------------------------------------------------------
(* C1 *)

\* C1: after a step executes exit_group (4246) with a0 = c, exited is true
\* and exit_code = c mod 256, and every later mips_step call changes no
\* field of the machine state.
C1_ExitTerminal ==
    /\ [](PrevSyscall(SYS_EXIT_GROUP)
            => exited /\ exit_code = to_be_bytes(PrevA0)[4] /\ status = "ok")
    /\ [][exited => UNCHANGED <<MachineFields, exited, exit_code>>]_vars

\* a call made after exit_group(298): exited with code 42, nothing moved
C1_Witness ==
    /\ prev.valid /\ prev.m.exited /\ exited
    /\ registers[A0] = W(298) /\ exit_code = 42
    /\ step = prev.m.step /\ pc = prev.m.pc

-----------------------------------------------------------------------------
(* C2 *)

IsBranch(insn) == Opcode(insn) \in {4, 5, 6, 7, 1}

\* C2: a step that fetches a conditional branch at pc = A with next_pc = N
\* completes without aborting and leaves pc = N and next_pc = A + 4 +
\* (sign-extend(imm16) << 2) mod 2^32 if the branch is taken, N + 4 otherwise.
C2_BranchStep ==
    (Stepped /\ IsBranch(prev.insn)) =>
        /\ status = "ok"
        /\ pc = prev.m.next_pc
        /\ next_pc =
              IF should_branch(prev.m, Opcode(prev.insn), prev.insn,
                               RtReg(prev.insn), prev.m.registers[RsReg(prev.insn)])
              THEN branch_target(prev.m.pc, prev.insn).v
              ELSE Add32(prev.m.next_pc, W(4)).v

-----------------------------------------------------------------------------
(* C3 *)

IsJ(insn) == Opcode(insn) \in {2, 3}

IsJR(insn) == Opcode(insn) = 0 /\ Fun(insn) \in {8, 9}

\* sign-extend(bits[25:0], 26) << 2, from the number the 26 bits spell
JTarget(insn) ==
    LET n == (insn[1] % 1024) * Half + insn[2]
    IN  IF n < 2^25 THEN W(4 * n) ELSE Sub32(ZeroWord, W(4 * (2^26 - n))).v

\* the register a jump links: 31 for jal, rd for jalr, none (0) otherwise
LinkOf(insn) ==
    IF Opcode(insn) = 3 THEN RA
    ELSE IF Opcode(insn) = 0 /\ Fun(insn) = 9 THEN RdReg(insn)
    ELSE 0

\* C3: j, jal, jr and jalr at pc = A with next_pc = N leave pc = N and
\* next_pc = the jump target (sign-extend(bits[25:0],26) << 2 for j/jal, the
\* old registers[rs] for jr/jalr); jal sets register 31 and jalr register rd
\* (when rd != 0) to A + 8; no other register changes.
C3_JumpStep ==
    (Stepped /\ (IsJ(prev.insn) \/ IsJR(prev.insn))) =>
        /\ status = "ok"
        /\ pc = prev.m.next_pc
        /\ next_pc = IF IsJ(prev.insn) THEN JTarget(prev.insn)
                     ELSE prev.m.registers[RsReg(prev.insn)]
        /\ registers =
              IF LinkOf(prev.insn) # 0
              THEN [prev.m.registers EXCEPT
                       ![LinkOf(prev.insn)] = Add32(prev.m.pc, W(8)).v]
              ELSE prev.m.registers

\* a jal in the delay slot of a jr: pc = N, the target in next_pc, the
\* return address in register 31
C3_Witness ==
    /\ Stepped /\ Opcode(prev.insn) = 3
    /\ prev.m.pc = W(4) /\ prev.m.next_pc = W(12)
    /\ pc = W(12) /\ next_pc = <<1024, 12>> /\ registers[RA] = W(12)

-----------------------------------------------------------------------------
(* C4 *)

\* C4: register 0 is 0 in every reachable state.
C4_RegisterZero == registers[0] = ZeroWord

\* a completed lw into register 0 of a word that is not 0
C4_Witness ==
    /\ Stepped /\ status = "ok" /\ prev.insn = LW(0, 10, 4)
    /\ get_memory(memory, Add32(DataBase, W(4)).v) # ZeroWord
    /\ mem_proof = Add32(DataBase, W(4)).v

-----------------------------------------------------------------------------
(* C5 *)

\* C5: with memory proofs enabled, no step of a run whose steps each access
\* a single aligned address aborts for a memory-access violation, also when
\* an earlier step accessed a different address.
C5_OneAddressPerStep ==
    (Stepped /\ prev.m.mem_proof_enabled /\ prev.m.step >= 1
        /\ prev.m.mem_proof = prev.m.last_mem_access)
    => status # MemAccessPanic

-----------------------------------------------------------------------------
(* C6 *)

\* C6: every mmap with a0 = 0 returns the old heap in register 2 and leaves
\* heap = old heap + a1 rounded up to the page size, not below the old heap
\* and without wrapping around 2^32.
C6_MmapMonotone ==
    (PrevSyscall(SYS_MMAP) /\ PrevA0 = ZeroWord) =>
        LET size == mmap_size(PrevA1)
            h == Add32(prev.m.heap, size.v)
        IN  /\ status = "ok"
            /\ registers[V0] = prev.m.heap
            /\ ~size.ovf /\ ~h.ovf /\ heap = h.v
            /\ ~Lt32(heap, prev.m.heap)

-----------------------------------------------------------------------------
(* C7, C8, C9 *)

\* the last call was a write to the hint fd
HintWrite == PrevSyscall(SYS_WRITE) /\ PrevA0 = W(FD_HINT_WRITE)

\* the bytes that write handed over
Written == read_memory_range(prev.m.memory, PrevA1, ToNat(PrevA2))

\* the length a record's header announces
HeaderLen(buf) == ToNat(from_be_bytes(SubSeq(buf, 1, 4)))

\* buf is exactly one record [4-byte big-endian n][n bytes], n >= 1
OneRecord(buf) == Len(buf) >= 5 /\ HeaderLen(buf) = Len(buf) - 4

\* the payloads of the complete records buf starts with, and what follows them
RECURSIVE Records(_)
Records(buf) ==
    IF Len(buf) >= 4 /\ HeaderLen(buf) <= Len(buf) - 4
    THEN <<SubSeq(buf, 5, 4 + HeaderLen(buf))>> \o Records(Drop(buf, 4 + HeaderLen(buf)))
    ELSE <<>>

RECURSIVE Leftover(_)
Leftover(buf) ==
    IF Len(buf) >= 4 /\ HeaderLen(buf) <= Len(buf) - 4
    THEN Leftover(Drop(buf, 4 + HeaderLen(buf)))
    ELSE buf

\* C7: a hint write that supplies exactly one complete record with n >= 1
\* while last_hint is empty makes exactly one oracle hint call, with that
\* payload, after the calls of the earlier writes, and leaves last_hint empty.
C7_HintRecord ==
    (HintWrite /\ prev.m.last_hint = <<>> /\ OneRecord(Written)) =>
        /\ status = "ok"
        /\ oracle_hints = Append(prev.m.oracle_hints, SubSeq(Written, 5, Len(Written)))
        /\ last_hint = <<>>

\* "abc" then "de", written one record at a time
C7_Witness ==
    /\ HintWrite /\ status = "ok"
    /\ prev.m.oracle_hints = << <<97, 98, 99>> >>
    /\ oracle_hints = << <<97, 98, 99>>, <<100, 101>> >>
    /\ last_hint = <<>>

\* C8: a hint write that leaves a header followed by fewer payload bytes
\* than it announces completes without aborting and without a hint call,
\* and the partial bytes stay in last_hint.
C8_PartialHint ==
    (HintWrite /\ prev.m.last_hint = <<>> /\ Len(Written) >= 4
        /\ HeaderLen(Written) > Len(Written) - 4) =>
        /\ status = "ok"
        /\ oracle_hints = prev.m.oracle_hints
        /\ last_hint = Written

\* C9: a hint write whose buffered bytes hold a complete record followed by
\* further bytes terminates, forwards every complete record in order and
\* keeps only the incomplete tail in last_hint.
C9_HintDrain ==
    (HintWrite /\ Len(prev.m.last_hint \o Written) >= 4
        /\ HeaderLen(prev.m.last_hint \o Written) < Len(prev.m.last_hint \o Written) - 4) =>
        /\ status = "ok"
        /\ oracle_hints = prev.m.oracle_hints \o Records(prev.m.last_hint \o Written)
        /\ last_hint = Leftover(prev.m.last_hint \o Written)

-----------------------------------------------------------------------------
(* C10 *)

\* the last call was a write to the preimage-write fd whose memory access
\* the proof tracking let through
PreimageWrite ==
    /\ PrevSyscall(SYS_WRITE) /\ PrevA0 = W(FD_PREIMAGE_WRITE)
    /\ (~prev.m.mem_proof_enabled \/ prev.m.last_mem_access = AlignWord(PrevA1))

\* C10: a write to the preimage-write fd at a1 with count a2 completes for
\* every alignment and count, and with k = min(a2, 4 - (a1 & 3)) the new key
\* is the old key shifted left by k bytes with k bytes of the addressed word
\* appended, preimage_offset = 0 and registers[2] = k.
C10_PreimageWrite ==
    PreimageWrite =>
        LET k == ToNat(Min32(PrevA2, W(4 - Alignment(PrevA1))))
            word == to_be_bytes(get_memory(prev.m.memory, AlignWord(PrevA1)))
        IN  /\ status = "ok"
            /\ preimage_key = Drop(prev.m.preimage_key, k)
                              \o SubSeq(word, Alignment(PrevA1) + 1, Alignment(PrevA1) + k)
            /\ preimage_offset = ZeroWord
            /\ registers[V0] = W(k)

-----------------------------------------------------------------------------
(* C11 *)

\* the last call was a read from the preimage-read fd whose memory access
\* the proof tracking let through
PreimageRead ==
    /\ PrevSyscall(SYS_READ) /\ PrevA0 = W(FD_PREIMAGE_READ)
    /\ (~prev.m.mem_proof_enabled \/ prev.m.last_mem_access = AlignWord(PrevA1))

\* the bytes the cached prefixed preimage holds from byte off on
Remaining(buf, off) == IF off <= Len(buf) THEN Len(buf) - off ELSE 0

\* C11: a read from the preimage-read fd at a1 with count a2 completes for
\* every alignment, count and remaining length, and with n = min(remaining
\* bytes of the cached preimage, 4 - (a1 & 3), a2) it overwrites exactly the
\* n bytes of the aligned word from lane a1 & 3 on, adds n to
\* preimage_offset and returns registers[2] = n, registers[7] = 0.
C11_PreimageRead ==
    PreimageRead =>
        LET al == Alignment(PrevA1)
            off == ToNat(prev.m.preimage_offset)
            n == ToNat(Min32(W(Min(Remaining(last_preimage, off), 4 - al)), PrevA2))
            old == to_be_bytes(get_memory(prev.m.memory, AlignWord(PrevA1)))
        IN  /\ status = "ok"
            /\ to_be_bytes(get_memory(memory, AlignWord(PrevA1)))
                   = SubSeq(old, 1, al) \o SubSeq(last_preimage, off + 1, off + n)
                     \o SubSeq(old, al + n + 1, 4)
            /\ preimage_offset = Add32(prev.m.preimage_offset, W(n)).v
            /\ registers[V0] = W(n)
            /\ registers[7] = ZeroWord

-----------------------------------------------------------------------------
(* C12 *)

\* the last call was a caller's read_preimage(prev.key, prev.offset)
ReadCall == prev # NoPrev /\ ~prev.valid /\ prev.call = "read_preimage"

\* C12: read_preimage(key, offset) on a cached prefixed buffer of length L
\* returns the count min(32, L - offset) for every offset <= L, and the
\* count 0 without aborting for every offset > L.
C12_ReadBound ==
    ReadCall =>
        /\ status = "ok"
        /\ prev.data_len = Min(KeyLen, Remaining(last_preimage, prev.offset))

-----------------------------------------------------------------------------
(* C13 *)

\* the read_preimage call of the last step fetched a blob from the oracle
Fetched ==
    PreimageRead /\ Len(oracle_fetches) = Len(prev.m.oracle_fetches) + 1

\* C13: when read_preimage fetches a blob of n bytes, the cached buffer is
\* the 4 bytes of n in big-endian order followed by the n payload bytes
\* (n + 4 bytes in all).
C13_PrefixFormat ==
    Fetched =>
        /\ Len(last_preimage) = Len(get_preimage(prev.m.preimage_key)) + 4
        /\ last_preimage
              = to_be_bytes(W(Len(get_preimage(prev.m.preimage_key))))
                \o get_preimage(prev.m.preimage_key)

-----------------------------------------------------------------------------
(* C14 *)

\* C14: read_preimage calls the oracle exactly when the requested key
\* differs from the cached key: a read of the cached key fetches nothing and
\* keeps the cached key and blob, a read of another key is one fetch that
\* replaces both, and the bytes returned are those of the cached blob at
\* the offset.
C14_SingleFetch ==
    ReadCall =>
        /\ IF prev.key # prev.m.last_preimage_key
           THEN /\ oracle_fetches = Append(prev.m.oracle_fetches, prev.key)
                /\ last_preimage_key = prev.key
                /\ Drop(last_preimage, usize_bytes) = get_preimage(prev.key)
           ELSE /\ oracle_fetches = prev.m.oracle_fetches
                /\ last_preimage_key = prev.m.last_preimage_key
                /\ last_preimage = prev.m.last_preimage
        /\ status = "ok" =>
               SubSeq(prev.data, 1, prev.data_len)
                 = SubSeq(last_preimage, prev.offset + 1, prev.offset + prev.data_len)

\* after a 30-byte blob, the 3-byte blob read twice: two fetches in all, and
\* the second read returns the blob's bytes from the cache
C14_Witness ==
    /\ ReadCall /\ status = "ok"
    /\ prev.key = KeyOf(3) /\ prev.offset = usize_bytes
    /\ prev.m.oracle_fetches = <<KeyOf(30), KeyOf(3)>>
    /\ oracle_fetches = <<KeyOf(30), KeyOf(3)>>
    /\ prev.data_len = 3 /\ SubSeq(prev.data, 1, 3) = get_preimage(KeyOf(3))

-----------------------------------------------------------------------------
(* C15 *)

\* the last call was a caller's handle_hilo(fun, prev.rs, prev.rt, prev.store_reg)
HiLoCall(fun) ==
    prev # NoPrev /\ ~prev.valid /\ prev.call = "handle_hilo" /\ prev.fun = fun

\* the 64-bit two's-complement product of two signed 32-bit values, as
\* <<upper word, lower word>>: the product of the magnitudes, negated when
\* the signs differ
SignedMul64(x, y) ==
    LET p == Mul64(Abs32(x), Abs32(y))
    IN  IF Neg32(x) = Neg32(y) THEN p
        ELSE <<IF p[2] = ZeroWord THEN Negate32(p[1]) ELSE Not32(p[1]), Negate32(p[2])>>

\* C15: mult leaves in hi:lo the 64-bit two's-complement product of rs and
\* rt taken as signed 32-bit values, for all operands and without aborting
\* (rs = rt = 0xFFFFFFFF: hi = 0, lo = 1); multu leaves the unsigned 64-bit
\* product.
C15_Mult ==
    /\ HiLoCall(24) => status = "ok" /\ <<hi, lo>> = SignedMul64(prev.rs, prev.rt)
    /\ HiLoCall(25) => status = "ok" /\ <<hi, lo>> = Mul64(prev.rs, prev.rt)
    /\ (HiLoCall(24) /\ prev.rs = AllOnes /\ prev.rt = AllOnes)
          => hi = W(0) /\ lo = W(1)

-----------------------------------------------------------------------------
(* C16 *)

\* q and r are the quotient and remainder of the signed division of x by y:
\* x = q * y + r with |r| < |y|, r zero or of the sign of x, |q| <= |x|
SignedDivision(x, y, q, r) ==
    /\ Add32(Mul64(q, y)[2], r).v = x
    /\ Lt32(Abs32(r), Abs32(y))
    /\ r = ZeroWord \/ Neg32(r) = Neg32(x)
    /\ ~Lt32(Abs32(x), Abs32(q))

\* q and r are the quotient and remainder of the unsigned division of x by y
UnsignedDivision(x, y, q, r) ==
    /\ Mul64(q, y)[1] = ZeroWord
    /\ ~Add32(Mul64(q, y)[2], r).ovf
    /\ Add32(Mul64(q, y)[2], r).v = x
    /\ Lt32(r, y)

\* C16: for every non-zero divisor rt, div leaves in lo the signed quotient
\* of rs by rt truncated toward zero and in hi the signed remainder, divu
\* the unsigned quotient and remainder, without aborting (div(7,2): lo = 3,
\* hi = 1; divu(0xFFFFFFFF,2): lo = 0x7FFFFFFF, hi = 1).
C16_Div ==
    /\ (HiLoCall(26) /\ prev.rt # ZeroWord)
          => status = "ok" /\ SignedDivision(prev.rs, prev.rt, lo, hi)
    /\ (HiLoCall(27) /\ prev.rt # ZeroWord)
          => status = "ok" /\ UnsignedDivision(prev.rs, prev.rt, lo, hi)
    /\ (HiLoCall(26) /\ prev.rs = W(7) /\ prev.rt = W(2)) => lo = W(3) /\ hi = W(1)
    /\ (HiLoCall(27) /\ prev.rs = AllOnes /\ prev.rt = W(2))
          => lo = <<32767, 65535>> /\ hi = W(1)

-----------------------------------------------------------------------------
(* C17 *)

\* the last step ran a load of opcode op into a register other than 0 and
\* did not abort
LoadStep(op) ==
    /\ prev # NoPrev /\ prev.valid /\ status = "ok"
    /\ Opcode(prev.insn) = op /\ RtReg(prev.insn) # 0

\* the address of the load: the base register plus the signed immediate
LoadAddr ==
    Add32(prev.m.registers[RsReg(prev.insn)],
          <<IF prev.insn[2] >= 32768 THEN 65535 ELSE 0, prev.insn[2]>>).v

\* the bytes of the word of the load, most significant first
LoadWord == to_be_bytes(get_memory(prev.m.memory, AlignWord(LoadAddr)))

\* the byte and the halfword the load addresses
LoadByte == LoadWord[(LoadAddr[2] % 4) + 1]

LoadHalf ==
    LET k == 2 * ((LoadAddr[2] \div 2) % 2)
    IN  LoadWord[k + 1] * 256 + LoadWord[k + 2]

Loaded == registers[RtReg(prev.insn)]

\* C17: lb returns the addressed byte of the big-endian word sign-extended
\* to 32 bits and lh the addressed halfword sign-extended; lbu and lhu
\* return the same byte and halfword with every upper bit zero.
C17_Loads ==
    /\ LoadStep(32) =>
          Loaded = IF LoadByte >= 128 THEN <<65535, 65280 + LoadByte>> ELSE <<0, LoadByte>>
    /\ LoadStep(33) =>
          Loaded = IF LoadHalf >= 32768 THEN <<65535, LoadHalf>> ELSE <<0, LoadHalf>>
    /\ LoadStep(36) => Loaded = <<0, LoadByte>>
    /\ LoadStep(37) => Loaded = <<0, LoadHalf>>

C17_Witness ==
    /\ LoadStep(33) /\ LoadAddr[2] % 4 = 2 /\ LoadHalf >= 32768
    /\ Loaded = <<65535, LoadHalf>>

-----------------------------------------------------------------------------
(* C18 *)

\* the last step was a syscall on a file descriptor it does not serve, or an
\* fcntl with a command other than F_GETFL
BadDescriptor ==
    \/ PrevSyscall(SYS_READ)
         /\ PrevA0 \notin {W(FD_STDIN), W(FD_HINT_READ), W(FD_PREIMAGE_READ)}
    \/ PrevSyscall(SYS_WRITE)
         /\ PrevA0 \notin {W(FD_STDOUT), W(FD_STDERR), W(FD_HINT_WRITE), W(FD_PREIMAGE_WRITE)}
    \/ PrevSyscall(SYS_FCNTL) /\ PrevA1 = W(3) /\ PrevA0 \notin {W(fd) : fd \in 0..6}
    \/ PrevSyscall(SYS_FCNTL) /\ PrevA1 # W(3)

\* C18: a read with fd not in {0,3,5}, a write with fd not in {1,2,4,6}, an
\* fcntl F_GETFL with fd not in 0..6 and an fcntl with another command each
\* set registers[2] = 0xFFFFFFFF and registers[7] = 9, advance pc and
\* next_pc, leave exited false and change nothing else of the state.
C18_BadDescriptor ==
    BadDescriptor =>
        /\ status = "ok"
        /\ registers = [prev.m.registers EXCEPT ![V0] = AllOnes, ![7] = W(MIPS_EBADF)]
        /\ pc = prev.m.next_pc
        /\ next_pc = Add32(prev.m.next_pc, W(4)).v
        /\ ~exited
        /\ <<memory, heap, hi, lo, preimage_key, preimage_offset, last_hint>>
             = <<prev.m.memory, prev.m.heap, prev.m.hi, prev.m.lo, prev.m.preimage_key,
                 prev.m.preimage_offset, prev.m.last_hint>>

C18_Witness ==
    /\ PrevSyscall(SYS_FCNTL) /\ PrevA1 # W(3) /\ PrevA0 = W(FD_STDOUT)
    /\ registers[V0] = AllOnes /\ registers[7] = W(MIPS_EBADF)

-----------------------------------------------------------------------------
(* C19 *)

\* the last step ran the R-type instruction of opcode 0 and function fun,
\* with a destination other than register 0
RTypeStep(fun) ==
    /\ Stepped /\ Opcode(prev.insn) = 0 /\ Fun(prev.insn) = fun
    /\ RdReg(prev.insn) # 0

PrevRs == prev.m.registers[RsReg(prev.insn)]

PrevRt == prev.m.registers[RtReg(prev.insn)]

PrevRd == prev.m.registers[RdReg(prev.insn)]

\* C19: the second operand of an R-type instruction is the register named
\* by bits 20..16: addu writes (registers[rs] + registers[rt]) mod 2^32 to
\* rd, movz writes registers[rs] to rd iff registers[rt] = 0 and movn iff
\* registers[rt] # 0.
C19_RTypeOperand ==
    /\ RTypeStep(33) =>
          status = "ok" /\ registers[RdReg(prev.insn)] = Add32(PrevRs, PrevRt).v
    /\ RTypeStep(10) =>
          registers[RdReg(prev.insn)] = IF PrevRt = ZeroWord THEN PrevRs ELSE PrevRd
    /\ RTypeStep(11) =>
          registers[RdReg(prev.insn)] = IF PrevRt # ZeroWord THEN PrevRs ELSE PrevRd

-----------------------------------------------------------------------------
(* C20 *)

\* the last step fetched a REGIMM branch with the sub-field sub
RegimmStep(sub) ==
    Stepped /\ Opcode(prev.insn) = 1 /\ RtReg(prev.insn) = sub

\* where a taken branch of the last step leads
RegimmTarget ==
    Add32(Add32(prev.m.pc, W(4)).v,
          Shl32(<<IF prev.insn[2] >= 32768 THEN 65535 ELSE 0, prev.insn[2]>>, 2)).v

\* the last step completed and branched iff taken
Branched(taken) ==
    /\ status = "ok"
    /\ pc = prev.m.next_pc
    /\ next_pc = IF taken THEN RegimmTarget ELSE Add32(prev.m.next_pc, W(4)).v

\* C20: a branch of opcode 1 decides by the sub-field at bits 20..16 of its
\* instruction: bgez (1) is taken iff rs >= 0 as a signed value, bltz (0)
\* iff rs < 0; a bgez is neither rejected nor evaluated as bltz.
C20_Regimm ==
    /\ RegimmStep(1) => Branched(~Neg32(PrevRs))
    /\ RegimmStep(0) => Branched(Neg32(PrevRs))

-----------------------------------------------------------------------------
(* C21 *)

\* the last step ran the immediate instruction of opcode op, with a
\* destination other than register 0
ImmStep(op) ==
    Stepped /\ Opcode(prev.insn) = op /\ RtReg(prev.insn) # 0

\* C21: ori writes registers[rs] OR the zero-extended imm16 to rt and xori
\* registers[rs] XOR the zero-extended imm16, and neither step aborts as an
\* invalid instruction.
C21_LogicImm ==
    /\ ImmStep(13) =>
          /\ status = "ok"
          /\ registers[RtReg(prev.insn)] = Or32(PrevRs, <<0, prev.insn[2]>>)
    /\ ImmStep(14) =>
          /\ status = "ok"
          /\ registers[RtReg(prev.insn)] = Xor32(PrevRs, <<0, prev.insn[2]>>)

-----------------------------------------------------------------------------
(* C22 *)

\* the last call was execute on the R-type function fun
ExecuteCall(fun) ==
    prev # NoPrev /\ ~prev.valid /\ prev.call = "execute" /\ Fun(prev.insn) = fun

\* w shifted right by n arithmetically: the vacated bits take bit 31 of w
ArithShr(w, n) == IF Neg32(w) THEN Not32(Shr32(Not32(w), n)) ELSE Shr32(w, n)

\* C22: execute returns for sra rt shifted right arithmetically by shamt,
\* for every shamt in 0..31 (rt itself for shamt = 0), and for srav rt
\* shifted right arithmetically by rs & 0x1f for every rs, without aborting.
C22_ArithShift ==
    /\ ExecuteCall(3) =>
          status = "ok" /\ prev.result = ArithShr(prev.rt, Shamt(prev.insn))
    /\ ExecuteCall(7) =>
          status = "ok" /\ prev.result = ArithShr(prev.rt, prev.rs[2] % 32)

-----------------------------------------------------------------------------
(* C23 *)

\* the last step fetched a store (sb, sh, swl, sw, swr or sc)
StoreStep == Stepped /\ Opcode(prev.insn) \in {40, 41, 42, 43, 46, 56}

\* the aligned effective address of the last step's memory instruction
StoreAddr == AlignWord(LoadAddr)

\* the first proof-tracking call of the last step accepted the address
FirstAccessAccepted ==
    ~prev.m.mem_proof_enabled \/ prev.m.last_mem_access = StoreAddr

\* the sum of the base register and the sign-extended immediate passes 2^32
AddressWraps ==
    Add32(prev.m.registers[RsReg(prev.insn)],
          <<IF prev.insn[2] >= 32768 THEN 65535 ELSE 0, prev.insn[2]>>).ovf

\* C23: a store step writes exactly one memory word, the word at the
\* aligned effective address that the same step loaded; the second
\* proof-tracking call uses that address and never aborts; every other
\* word is unchanged, and no register is written except rt by sc, which
\* stores the original registers[rt] and then sets rt to 1.
C23_StoreFrame ==
    /\ (StoreStep /\ FirstAccessAccepted /\ ~(overflow_checks /\ AddressWraps))
          => status = "ok"
    /\ (StoreStep /\ status = "ok") =>
          /\ StoreAddr \in DOMAIN memory
          /\ last_mem_access = StoreAddr
          /\ \A a \in (DOMAIN memory \cup DOMAIN prev.m.memory) \ {StoreAddr} :
                 get_memory(memory, a) = get_memory(prev.m.memory, a)
          /\ Opcode(prev.insn) \in {43, 56} => memory[StoreAddr] = PrevRt
          /\ registers =
                 IF Opcode(prev.insn) = 56 /\ RtReg(prev.insn) # 0
                 THEN [prev.m.registers EXCEPT ![RtReg(prev.insn)] = W(1)]
                 ELSE prev.m.registers
    /\ (StoreStep /\ status # "ok") =>
          memory = prev.m.memory /\ registers = prev.m.registers

C23_Witness ==
    /\ StoreStep /\ status = "ok" /\ prev.m.mem_proof_enabled
    /\ Opcode(prev.insn) = 56 /\ RtReg(prev.insn) = 3
    /\ memory[StoreAddr] = <<4660, 22136>> /\ registers[3] = W(1)
    /\ memory[StoreAddr] # get_memory(prev.m.memory, StoreAddr)

-----------------------------------------------------------------------------
(* C24 *)

\* C24: when mem_proof_enabled is false no step aborts because of the
\* address it accesses and no Merkle proof is computed: mem_proof is never
\* updated by a load, a store or a preimage syscall.
C24_ProofFree ==
    ~mem_proof_enabled => status # MemAccessPanic /\ mem_proof = ZeroWord

-----------------------------------------------------------------------------
(* C25 *)

\* the last step ran mthi, mtlo, mult, multu, div or divu
HiLoWriteStep ==
    Stepped /\ Opcode(prev.insn) = 0 /\ Fun(prev.insn) \in {17, 19, 24, 25, 26, 27}

\* C25: mthi, mtlo, mult, multu, div and divu steps change only hi, lo, pc,
\* next_pc and step: no general-purpose register is modified, whatever the
\* rd field of the instruction holds.
C25_HiLoFrame ==
    HiLoWriteStep =>
        /\ registers = prev.m.registers
        /\ <<memory, heap, exited, exit_code, preimage_key, preimage_offset, last_hint>>
             = <<prev.m.memory, prev.m.heap, prev.m.exited, prev.m.exit_code,
                 prev.m.preimage_key, prev.m.preimage_offset, prev.m.last_hint>>

-----------------------------------------------------------------------------
(* C26 *)

\* the last step ran div or divu with a divisor operand of 0
DivideByZeroStep ==
    /\ Stepped /\ Opcode(prev.insn) = 0 /\ Fun(prev.insn) \in {26, 27}
    /\ decode_rt(prev.m, prev.insn) = ZeroWord

\* C26: a div or divu whose divisor operand is 0 aborts execution instead of
\* producing a result: hi, lo, the registers, pc and next_pc are not
\* modified by that step.
C26_DivideByZero ==
    DivideByZeroStep =>
        /\ status = DividePanic
        /\ <<hi, lo, registers, pc, next_pc>>
             = <<prev.m.hi, prev.m.lo, prev.m.registers, prev.m.pc, prev.m.next_pc>>

C26_Witness ==
    /\ DivideByZeroStep /\ Fun(prev.insn) = 27 /\ PrevRs # ZeroWord
    /\ status = DividePanic /\ hi = prev.m.hi /\ lo = prev.m.lo /\ hi # ZeroWord

-----------------------------------------------------------------------------
(* C27 *)

\* C27: a write to the hint-write fd with count a2 that completes returns
\* registers[2] = a2, the number of bytes consumed, and registers[7] = 0,
\* as the writes to stdout and stderr do.
C27_HintWriteCount ==
    (HintWrite /\ status = "ok") =>
        registers[V0] = PrevA2 /\ registers[7] = ZeroWord

====
